---- MODULE Spec2Model ----
(***************************************************************************)
(* Model of the advisor form: the firm directory lookup service            *)
(* (FirmService, src/src/types/index.ts), the AdvisorForm controller       *)
(* with its step components (src/src/components/Tag.tsx, ContactForm.tsx,  *)
(* FirmInput.tsx, src/unnamed/part_005) and the submission relay handler   *)
(* (src/unnamed/part_000).                                                 *)
(*                                                                         *)
(* Strings are tuples of one-character strings, so that trim(),            *)
(* toLowerCase(), startsWith() and includes() are computed, not assumed.   *)
(***************************************************************************)
EXTENDS Integers, Sequences, FiniteSets, TLC

VARIABLES
    firms,            \* FirmService.firms: the backing array of the directory
    loaded,           \* history: the directory content as loaded at start
    returned,         \* content of the array last handed out by getAllFirms
    aliased,          \* TRUE iff that array is the same object as firms
    hasReturned,      \* TRUE once getAllFirms has handed out an array
    call,             \* the last FirmService call made by a client and its result
    formState,        \* AdvisorForm: useState<AdvisorFormState>
    loading,          \* AdvisorForm: useState(false)
    firmInputError,   \* AdvisorForm: useState<string>('')
    currentFirmInput, \* AdvisorForm: useState<string>('')
    emailError,       \* AdvisorForm: useState<string>('')
    formData,         \* ContactForm: useState<ContactFormData>
    errors,           \* ContactForm: the set of fields carrying an error message
    contactTimers,    \* pending setTimeout callbacks of handleContactSubmit
    pendingFinish,    \* handleFinish invocations suspended at await fetch(...)
    nextId,           \* source of fresh ids (crypto.randomUUID)
    submitted,        \* history: names (lowercased) submitted with a valid email
                      \* since the last removal or reset
    effects,          \* what the last handler did to its collaborators
    event,            \* relay handler: the request it is invoked with
    env,              \* relay handler: process.env
    relay,            \* relay handler: where the invocation stands, whether it
                      \* has parsed the body, the webhook POSTs it has made
    response,         \* relay handler: what the invocation returned
    firmInput         \* FirmInput: its value prop, its three useState cells and
                      \* what its last handler passed to onSubmit

svcVars == <<firms, loaded, returned, aliased, hasReturned, call>>
formVars == <<formState, loading, firmInputError, currentFirmInput, emailError,
              formData, errors, contactTimers, pendingFinish, nextId, submitted,
              effects>>
relayVars == <<event, env, relay, response>>
inputVars == <<firmInput>>
vars == <<svcVars, formVars, relayVars, inputVars>>

----------------------------------------------------------------------------
(* Bounds of the model *)

\* longest directory the service is loaded with
MaxDirLen == 2
\* largest maxSuggestions argument tried
MaxSuggestions == 2
\* number of FirmEntry ids that can be generated
MaxIds == 3
\* number of handleFinish invocations that can be suspended at once
MaxPending == 2

----------------------------------------------------------------------------
(* Strings *)

Min(a, b) == IF a < b THEN a ELSE b

\* the characters firm names are built from
Chars == {"a", "b", "A", " "}

\* all strings of at most two characters
Names == {<<>>} \cup {<<c>> : c \in Chars} \cup {<<c, d>> : c \in Chars, d \in Chars}

IsSpace(c) == c = " "

lowerChar(c) == CASE c = "A" -> "a" [] c = "B" -> "b" [] OTHER -> c

\* String.prototype.toLowerCase
toLowerCase(s) == [i \in 1..Len(s) |-> lowerChar(s[i])]

RECURSIVE trimStart(_)
trimStart(s) == IF s # <<>> /\ IsSpace(Head(s)) THEN trimStart(Tail(s)) ELSE s

RECURSIVE trimEnd(_)
trimEnd(s) ==
    IF s # <<>> /\ IsSpace(s[Len(s)]) THEN trimEnd(SubSeq(s, 1, Len(s) - 1)) ELSE s

\* String.prototype.trim
trim(s) == trimEnd(trimStart(s))

\* String.prototype.startsWith
startsWith(s, p) == Len(p) <= Len(s) /\ SubSeq(s, 1, Len(p)) = p

\* String.prototype.includes
includes(s, p) ==
    \E k \in 0..(Len(s) - Len(p)) : SubSeq(s, k + 1, k + Len(p)) = p

\* Array.prototype.slice(0, n)
slice0(arr, n) ==
    IF n >= 0 THEN SubSeq(arr, 1, Min(n, Len(arr)))
    ELSE SubSeq(arr, 1, Len(arr) + n)

\* the value null
Null == <<"null">>

----------------------------------------------------------------------------
(* FirmService.  Array.prototype.filter is SelectSeq. *)

\* isValidFirm that forgets to trim its argument
isValidFirm_noTrim(dir, firmName) ==
    IF firmName = <<>> \/ trim(firmName) = <<>> THEN FALSE
    ELSE LET normalizedInput == toLowerCase(firmName)
         IN  \E i \in 1..Len(dir) : toLowerCase(dir[i]) = normalizedInput

isValidFirm(dir, firmName) ==
    IF firmName = <<>> \/ trim(firmName) = <<>> THEN FALSE
    ELSE LET normalizedInput == toLowerCase(trim(firmName))
         IN  \E i \in 1..Len(dir) : toLowerCase(dir[i]) = normalizedInput

\* getFirmSuggestions that returns the matches in directory order
getFirmSuggestions_directoryOrder(dir, input, maxSuggestions) ==
    IF input = <<>> \/ trim(input) = <<>> THEN <<>>
    ELSE LET normalizedInput == toLowerCase(trim(input))
             AnyMatch(firm) == includes(toLowerCase(firm), normalizedInput)
         IN  slice0(SelectSeq(dir, AnyMatch), maxSuggestions)

getFirmSuggestions(dir, input, maxSuggestions) ==
    IF input = <<>> \/ trim(input) = <<>> THEN <<>>
    ELSE LET normalizedInput == toLowerCase(trim(input))
             StartsWithMatch(firm) == startsWith(toLowerCase(firm), normalizedInput)
             ContainsMatch(firm) ==
                 /\ includes(toLowerCase(firm), normalizedInput)
                 /\ ~startsWith(toLowerCase(firm), normalizedInput)
             startsWithMatches == SelectSeq(dir, StartsWithMatch)
             containsMatches == SelectSeq(dir, ContainsMatch)
             allMatches == startsWithMatches \o containsMatches
         IN  slice0(allMatches, maxSuggestions)

\* getExactFirmName that returns the normalized input instead of the entry
getExactFirmName_normalized(dir, firmName) ==
    IF firmName = <<>> \/ trim(firmName) = <<>> THEN Null
    ELSE LET normalizedInput == toLowerCase(trim(firmName))
         IN  IF \E i \in 1..Len(dir) : toLowerCase(dir[i]) = normalizedInput
             THEN normalizedInput ELSE Null

\* getExactFirmName that falls back to the normalized input on a miss
getExactFirmName_normalizedOnMiss(dir, firmName) ==
    IF firmName = <<>> \/ trim(firmName) = <<>> THEN Null
    ELSE LET normalizedInput == toLowerCase(trim(firmName))
             hits == {i \in 1..Len(dir) : toLowerCase(dir[i]) = normalizedInput}
         IN  IF hits = {} THEN normalizedInput
             ELSE dir[CHOOSE i \in hits : \A j \in hits : i <= j]

\* getExactFirmName that compares the entries without lowercasing them
getExactFirmName_caseSensitive(dir, firmName) ==
    IF firmName = <<>> \/ trim(firmName) = <<>> THEN Null
    ELSE LET normalizedInput == toLowerCase(trim(firmName))
             hits == {i \in 1..Len(dir) : dir[i] = normalizedInput}
         IN  IF hits = {} THEN Null
             ELSE LET found == dir[CHOOSE i \in hits : \A j \in hits : i <= j]
                  IN  IF found = <<>> THEN Null ELSE found

\* Array.prototype.find returns the first element that satisfies the test;
\* `found || null` turns undefined and the empty string into null
getExactFirmName(dir, firmName) ==
    IF firmName = <<>> \/ trim(firmName) = <<>> THEN Null
    ELSE LET normalizedInput == toLowerCase(trim(firmName))
             hits == {i \in 1..Len(dir) : toLowerCase(dir[i]) = normalizedInput}
         IN  IF hits = {} THEN Null
             ELSE LET found == dir[CHOOSE i \in hits : \A j \in hits : i <= j]
                  IN  IF found = <<>> THEN Null ELSE found

\* getAllFirms that hands out the backing array itself
getAllFirms_sameArray(dir) == [content |-> dir, sameObject |-> TRUE]

\* [...this.firms]: a new array object with the same elements
getAllFirms(dir) == [content |-> dir, sameObject |-> FALSE]

----------------------------------------------------------------------------
(* Clients of FirmService *)

\* the directories the service is loaded with
Dirs == UNION {[1..n -> Names] : n \in 1..MaxDirLen}

\* a client makes one query with the argument it holds
CallIsValidFirm ==
    /\ call.op = "none"
    /\ call' = [op |-> "isValidFirm", arg |-> call.arg,
                result |-> isValidFirm(firms, call.arg)]
    /\ UNCHANGED <<firms, loaded, returned, aliased, hasReturned, formVars,
                   relayVars, inputVars>>

CallGetExactFirmName ==
    /\ call.op = "none"
    /\ call' = [op |-> "getExactFirmName", arg |-> call.arg,
                result |-> getExactFirmName(firms, call.arg)]
    /\ UNCHANGED <<firms, loaded, returned, aliased, hasReturned, formVars,
                   relayVars, inputVars>>

CallGetFirmSuggestions ==
    /\ call.op = "none"
    /\ \E n \in (-1)..MaxSuggestions :
          call' = [op |-> "getFirmSuggestions", arg |-> call.arg, max |-> n,
                   result |-> getFirmSuggestions(firms, call.arg, n)]
    /\ UNCHANGED <<firms, loaded, returned, aliased, hasReturned, formVars,
                   relayVars, inputVars>>

CallGetAllFirms ==
    /\ LET r == getAllFirms(firms)
       IN  /\ returned' = r.content
           /\ aliased' = r.sameObject
    /\ hasReturned' = TRUE
    /\ UNCHANGED <<firms, loaded, call, formVars, relayVars, inputVars>>

\* what a caller can do to an array it holds: push, pop, length = 0
Mutations(arr) ==
    {arr \o <<x>> : x \in {y \in {<<"b">>} : Len(arr) <= MaxDirLen}}
        \cup {SubSeq(arr, 1, Len(arr) - 1) : x \in {y \in {0} : arr # <<>>}}
        \cup {<<>>}

\* a write through a reference reaches every holder of the same array object
CallerMutates ==
    /\ hasReturned
    /\ \E m \in Mutations(returned) \ {returned} :
          /\ returned' = m
          /\ firms' = IF aliased THEN m ELSE firms
    /\ UNCHANGED <<loaded, aliased, hasReturned, call, formVars, relayVars, inputVars>>

----------------------------------------------------------------------------
(* AdvisorForm: state *)

\* the fixture directory the controller runs against
Directory == << <<"A", "b">>, <<"b">> >>

\* what the user can type into the firm input
RawInputs == {<<>>, <<" ">>, <<"A", "b">>, <<"a", "b", " ">>, <<"b", "a">>, <<"b", "A">>}

\* what the user can type into the email field
Emails == {<<>>, <<"a", "@", "b">>, <<"a", "@", "b", ".", "c">>}

initialFormState ==
    [currentStep |-> "firm-input",
     currentFirmName |-> <<>>,
     currentFirmMatched |-> FALSE,
     enteredFirms |-> <<>>,
     isFormComplete |-> FALSE,
     maxFirms |-> 5,
     userEmail |-> <<>>]

\* ContactForm's initial formData
blankFormData ==
    [name |-> <<>>, designation |-> <<>>, relationshipStrength |-> "",
     contactFrequency |-> ""]

\* the values the user can give each contact field
FieldValues ==
    [name |-> {<<>>, <<" ">>, <<"J">>},
     designation |-> {<<>>, <<" ">>, <<"P">>},
     relationshipStrength |-> {"", "strong"},
     contactFrequency |-> {"", "quarterly"}]

NoEffects == [op |-> "none", lookups |-> 0, toasts |-> <<>>, requests |-> 0,
              completes |-> 0]

\* validateEmail that only asks for an @ between two characters
validateEmail_noDot(email) ==
    \E i \in 1..Len(email) : 1 < i /\ i < Len(email) /\ email[i] = "@"

\* /^[^\s@]+@[^\s@]+\.[^\s@]+$/.test(email)
validateEmail(email) ==
    LET NotSpaceAt(c) == ~IsSpace(c) /\ c # "@"
        AllIn(lo, hi) == \A k \in lo..hi : NotSpaceAt(email[k])
    IN  \E i \in 1..Len(email), j \in 1..Len(email) :
            /\ 1 < i /\ i + 1 < j /\ j < Len(email)
            /\ email[i] = "@" /\ email[j] = "."
            /\ AllIn(1, i - 1) /\ AllIn(i + 1, j - 1) /\ AllIn(j + 1, Len(email))

\* which step component AdvisorForm renders
FirmInputStepShown(fs) == ~fs.isFormComplete /\ fs.currentStep = "firm-input"
ContactDetailsStepShown(fs) == ~fs.isFormComplete /\ fs.currentStep = "contact-details"
FormCompleteStepShown(fs) == fs.isFormComplete

\* ContactForm keeps its local state while it stays mounted and starts from
\* its initial state when it is mounted again
ContactFormState(fs, fsNew, fd, errs) ==
    IF ContactDetailsStepShown(fs) /\ ContactDetailsStepShown(fsNew)
    THEN [formData |-> fd, errors |-> errs]
    ELSE [formData |-> blankFormData, errors |-> {}]

\* isAlreadyEntered that compares case-sensitively
isAlreadyEntered_caseSensitive(enteredFirms, firmName) ==
    \E i \in 1..Len(enteredFirms) : enteredFirms[i].firmName = firmName

\* Array.prototype.some over enteredFirms
isAlreadyEntered(enteredFirms, firmName) ==
    \E i \in 1..Len(enteredFirms) :
        toLowerCase(enteredFirms[i].firmName) = toLowerCase(firmName)

----------------------------------------------------------------------------
(* AdvisorForm: handlers.  Each action is one event handled to completion,  *)
(* followed by the render that React performs before the next event.        *)
(* HomePage passes onComplete and onToast and no onFirmsChange.             *)

\* the local state of ContactForm after a step of AdvisorForm
KeepContactForm ==
    LET st == ContactFormState(formState, formState', formData, errors)
    IN  formData' = st.formData /\ errors' = st.errors

\* AdvisorForm.handleFirmSubmit(firmName)
handleFirmSubmit(firmName) ==
    IF formState.userEmail = <<>> THEN
        /\ firmInputError' = ""
        /\ emailError' = "Please enter your email address before adding a firm"
        /\ effects' = [NoEffects EXCEPT !.op = "firmSubmit"]
        /\ UNCHANGED <<formState, currentFirmInput, nextId, submitted>>
    ELSE IF ~validateEmail(formState.userEmail) THEN
        /\ firmInputError' = ""
        /\ emailError' = "Please enter a valid email address before adding a firm"
        /\ effects' = [NoEffects EXCEPT !.op = "firmSubmit"]
        /\ UNCHANGED <<formState, currentFirmInput, nextId, submitted>>
    ELSE IF isAlreadyEntered(formState.enteredFirms, firmName) THEN
        /\ firmInputError' = "This firm has already been entered"
        /\ effects' = [NoEffects EXCEPT !.op = "firmSubmit"]
        /\ submitted' = submitted \cup {toLowerCase(firmName)}
        /\ UNCHANGED <<formState, currentFirmInput, emailError, nextId>>
    ELSE
        LET isMatched == isValidFirm(firms, firmName)
            exact == getExactFirmName(firms, firmName)
            exactFirmName == IF exact # Null THEN exact ELSE firmName
        IN  /\ firmInputError' = ""
            /\ currentFirmInput' = <<>>
            /\ submitted' = submitted \cup {toLowerCase(firmName)}
            /\ UNCHANGED emailError
            /\ IF isMatched THEN
                   /\ formState' = [formState EXCEPT
                                       !.currentFirmName = exactFirmName,
                                       !.currentFirmMatched = isMatched,
                                       !.currentStep = "contact-details"]
                   /\ effects' = [NoEffects EXCEPT !.op = "firmSubmit", !.lookups = 2]
                   /\ UNCHANGED nextId
               ELSE
                   LET newFirmEntry == [id |-> nextId, firmName |-> exactFirmName,
                                        isMatched |-> FALSE]
                   IN  /\ formState' = [formState EXCEPT
                                           !.enteredFirms = Append(@, newFirmEntry),
                                           !.currentFirmName = <<>>,
                                           !.currentFirmMatched = FALSE,
                                           !.currentStep = "firm-input"]
                       /\ nextId' = nextId + 1
                       /\ effects' = [NoEffects EXCEPT !.op = "firmSubmit",
                                         !.lookups = 2,
                                         !.toasts = <<exactFirmName>>]

\* FirmInput.handleInputChange -> AdvisorForm.handleFirmInputChange
FirmInputChange ==
    /\ FirmInputStepShown(formState)
    /\ \E value \in RawInputs : currentFirmInput' = value
    /\ firmInputError' = ""
    /\ effects' = [NoEffects EXCEPT !.op = "firmInputChange"]
    /\ UNCHANGED <<svcVars, relayVars, inputVars, formState, loading, emailError, formData, errors,
                   contactTimers, pendingFinish, nextId, submitted>>

\* FirmInput.handleSubmitClick -> AdvisorForm.handleFirmSubmit
FirmInputSubmit ==
    /\ FirmInputStepShown(formState)
    /\ trim(currentFirmInput) # <<>>
    /\ nextId + Len(contactTimers) <= MaxIds
    /\ handleFirmSubmit(trim(currentFirmInput))
    /\ KeepContactForm
    /\ UNCHANGED <<svcVars, relayVars, inputVars, loading, contactTimers, pendingFinish>>

\* validateForm that does not check the designation
validateForm_noDesignation(fd) ==
    {f \in {"relationshipStrength"} : fd.relationshipStrength = ""}
        \cup {f \in {"contactFrequency"} : fd.contactFrequency = ""}
        \cup {f \in {"name"} : fd.name = <<>> \/ trim(fd.name) = <<>>}

\* ContactForm.validateForm: the fields that get an error message
validateForm(fd) ==
    {f \in {"relationshipStrength"} : fd.relationshipStrength = ""}
        \cup {f \in {"contactFrequency"} : fd.contactFrequency = ""}
        \cup {f \in {"name"} : fd.name = <<>> \/ trim(fd.name) = <<>>}
        \cup {f \in {"designation"} : fd.designation = <<>> \/ trim(fd.designation) = <<>>}

\* ContactForm.handleInputChange / handleRelationshipChange / handleFrequencyChange
ContactFieldChange ==
    /\ ContactDetailsStepShown(formState)
    /\ ~loading
    /\ \E field \in DOMAIN FieldValues : \E value \in FieldValues[field] :
          /\ formData' = [formData EXCEPT ![field] = value]
          /\ errors' = errors \ {field}
    /\ effects' = [NoEffects EXCEPT !.op = "contactFieldChange"]
    /\ UNCHANGED <<svcVars, relayVars, inputVars, formState, loading, firmInputError, currentFirmInput,
                   emailError, contactTimers, pendingFinish, nextId, submitted>>

\* ContactForm.handleSubmit -> AdvisorForm.handleContactSubmit(contactData):
\* setLoading(true) and setTimeout(..., 1000), whose callback closes over
\* formState.currentFirmName and contactData
ContactFormSubmit ==
    /\ ContactDetailsStepShown(formState)
    /\ ~loading
    /\ nextId <= MaxIds
    /\ errors' = validateForm(formData)
    /\ IF validateForm(formData) = {} THEN
           /\ loading' = TRUE
           /\ contactTimers' = Append(contactTimers,
                  [firmName |-> formState.currentFirmName, contactData |-> formData])
       ELSE UNCHANGED <<loading, contactTimers>>
    /\ effects' = [NoEffects EXCEPT !.op = "contactSubmit"]
    /\ UNCHANGED <<svcVars, relayVars, inputVars, formState, firmInputError, currentFirmInput, emailError,
                   formData, pendingFinish, nextId, submitted>>

RemoveAt(seq, i) == SubSeq(seq, 1, i - 1) \o SubSeq(seq, i + 1, Len(seq))

\* the setTimeout callback of handleContactSubmit
ContactTimerFires ==
    \E i \in 1..Len(contactTimers) :
        LET t == contactTimers[i]
            newFirmEntry == [id |-> nextId,
                             firmName |-> t.firmName,
                             isMatched |-> TRUE,
                             contactName |-> t.contactData.name,
                             contactDesignation |-> t.contactData.designation,
                             relationshipStrength |-> t.contactData.relationshipStrength,
                             contactFrequency |-> t.contactData.contactFrequency]
        IN  /\ formState' = [formState EXCEPT
                                !.enteredFirms = Append(@, newFirmEntry),
                                !.currentStep = "firm-input",
                                !.currentFirmName = <<>>,
                                !.currentFirmMatched = FALSE]
            /\ nextId' = nextId + 1
            /\ effects' = [NoEffects EXCEPT !.op = "contactTimer",
                                             !.toasts = <<t.firmName>>]
            /\ loading' = FALSE
            /\ contactTimers' = RemoveAt(contactTimers, i)
            /\ KeepContactForm
            /\ UNCHANGED <<svcVars, relayVars, inputVars, firmInputError, currentFirmInput, emailError,
                           pendingFinish, submitted>>

\* a cancel that goes back to firm-input with the in-flight firm still recorded
ContactFormCancel_keepsName ==
    /\ ContactDetailsStepShown(formState)
    /\ ~loading
    /\ formState' = [formState EXCEPT !.currentStep = "firm-input"]
    /\ formData' = blankFormData
    /\ errors' = {}
    /\ effects' = [NoEffects EXCEPT !.op = "contactCancel"]
    /\ UNCHANGED <<svcVars, relayVars, inputVars, loading, firmInputError, currentFirmInput, emailError,
                   contactTimers, pendingFinish, nextId, submitted>>

\* ContactForm.handleCancel -> AdvisorForm.handleContactCancel
ContactFormCancel ==
    /\ ContactDetailsStepShown(formState)
    /\ ~loading
    /\ formState' = [formState EXCEPT !.currentStep = "firm-input",
                                      !.currentFirmName = <<>>,
                                      !.currentFirmMatched = FALSE]
    /\ formData' = blankFormData
    /\ errors' = {}
    /\ effects' = [NoEffects EXCEPT !.op = "contactCancel"]
    /\ UNCHANGED <<svcVars, relayVars, inputVars, loading, firmInputError, currentFirmInput, emailError,
                   contactTimers, pendingFinish, nextId, submitted>>

\* a handleFinish that checks only that an email is present, not its form
FinishClick_onlyChecksPresence ==
    /\ FirmInputStepShown(formState)
    /\ Len(formState.enteredFirms) > 0
    /\ IF formState.userEmail = <<>> THEN
           /\ emailError' = "Please enter your email address"
           /\ effects' = [NoEffects EXCEPT !.op = "finish"]
           /\ UNCHANGED pendingFinish
       ELSE
           /\ Len(pendingFinish) < MaxPending
           /\ pendingFinish' = Append(pendingFinish,
                  [finalFirms |-> formState.enteredFirms,
                   userEmail |-> formState.userEmail])
           /\ effects' = [NoEffects EXCEPT !.op = "finish", !.requests = 1]
           /\ UNCHANGED emailError
    /\ UNCHANGED <<svcVars, relayVars, inputVars, formState, loading, firmInputError, currentFirmInput,
                   formData, errors, contactTimers, nextId, submitted>>

\* a Finish button that is rendered for an empty list as well
FinishClick_offeredOnEmptyList ==
    /\ FirmInputStepShown(formState)
    /\ IF formState.userEmail = <<>> THEN
           /\ emailError' = "Please enter your email address"
           /\ effects' = [NoEffects EXCEPT !.op = "finish"]
           /\ UNCHANGED pendingFinish
       ELSE IF ~validateEmail(formState.userEmail) THEN
           /\ emailError' = "Please enter a valid email address"
           /\ effects' = [NoEffects EXCEPT !.op = "finish"]
           /\ UNCHANGED pendingFinish
       ELSE
           /\ Len(pendingFinish) < MaxPending
           /\ pendingFinish' = Append(pendingFinish,
                  [finalFirms |-> formState.enteredFirms,
                   userEmail |-> formState.userEmail])
           /\ effects' = [NoEffects EXCEPT !.op = "finish", !.requests = 1]
           /\ UNCHANGED emailError
    /\ UNCHANGED <<svcVars, relayVars, inputVars, formState, loading, firmInputError, currentFirmInput,
                   formData, errors, contactTimers, nextId, submitted>>

\* AdvisorForm.handleFinish up to `await fetch(...)`; the Submit button is
\* rendered by FirmInputStep while enteredFirms is not empty
FinishClick ==
    /\ FirmInputStepShown(formState)
    /\ Len(formState.enteredFirms) > 0
    /\ IF formState.userEmail = <<>> THEN
           /\ emailError' = "Please enter your email address"
           /\ effects' = [NoEffects EXCEPT !.op = "finish"]
           /\ UNCHANGED pendingFinish
       ELSE IF ~validateEmail(formState.userEmail) THEN
           /\ emailError' = "Please enter a valid email address"
           /\ effects' = [NoEffects EXCEPT !.op = "finish"]
           /\ UNCHANGED pendingFinish
       ELSE
           /\ Len(pendingFinish) < MaxPending
           /\ pendingFinish' = Append(pendingFinish,
                  [finalFirms |-> formState.enteredFirms,
                   userEmail |-> formState.userEmail])
           /\ effects' = [NoEffects EXCEPT !.op = "finish", !.requests = 1]
           /\ UNCHANGED emailError
    /\ UNCHANGED <<svcVars, relayVars, inputVars, formState, loading, firmInputError, currentFirmInput,
                   formData, errors, contactTimers, nextId, submitted>>

\* how the relay request of handleFinish can end: response.ok, a response
\* that is not ok (handleFinish throws), or a rejected fetch
RelayOutcomes == {"ok", "not-ok", "throws"}

\* a handleFinish that issues the request again when it has failed
FinishSettles_retriesOnFailure ==
    \E i \in 1..Len(pendingFinish), outcome \in RelayOutcomes :
        LET p == pendingFinish[i]
        IN  IF outcome = "ok" THEN
                /\ formState' = [formState EXCEPT !.isFormComplete = TRUE,
                                                  !.enteredFirms = p.finalFirms]
                /\ effects' = [op |-> "finishSettled", lookups |-> 0, toasts |-> <<>>,
                               requests |-> 0, completes |-> 1, outcome |-> outcome]
                /\ pendingFinish' = RemoveAt(pendingFinish, i)
                /\ KeepContactForm
                /\ UNCHANGED <<svcVars, relayVars, inputVars, loading, firmInputError,
                               currentFirmInput, emailError, contactTimers, nextId,
                               submitted>>
            ELSE
                /\ effects' = [op |-> "finishSettled", lookups |-> 0, toasts |-> <<>>,
                               requests |-> 1, completes |-> 0, outcome |-> outcome]
                /\ KeepContactForm
                /\ UNCHANGED <<svcVars, relayVars, inputVars, formState, pendingFinish, loading,
                               firmInputError, currentFirmInput, emailError,
                               contactTimers, nextId, submitted>>

\* AdvisorForm.handleFinish after `await fetch(...)`: the try branch and the
\* catch branch make the same updates
FinishSettles ==
    \E i \in 1..Len(pendingFinish), outcome \in RelayOutcomes :
        LET p == pendingFinish[i]
        IN  /\ formState' = [formState EXCEPT !.isFormComplete = TRUE,
                                              !.enteredFirms = p.finalFirms]
            /\ effects' = [op |-> "finishSettled", lookups |-> 0, toasts |-> <<>>,
                           requests |-> 0, completes |-> 1, outcome |-> outcome]
            /\ pendingFinish' = RemoveAt(pendingFinish, i)
            /\ KeepContactForm
            /\ UNCHANGED <<svcVars, relayVars, inputVars, loading, firmInputError, currentFirmInput,
                           emailError, contactTimers, nextId, submitted>>

\* AdvisorForm.handleEmailChange; FirmInputStep renders the email field only
\* while enteredFirms is empty
EmailChange ==
    /\ FirmInputStepShown(formState)
    /\ Len(formState.enteredFirms) = 0
    /\ \E email \in Emails : formState' = [formState EXCEPT !.userEmail = email]
    /\ emailError' = ""
    /\ effects' = [NoEffects EXCEPT !.op = "emailChange"]
    /\ UNCHANGED <<svcVars, relayVars, inputVars, loading, firmInputError, currentFirmInput, formData,
                   errors, contactTimers, pendingFinish, nextId, submitted>>

\* AdvisorForm.handleEmailBlur
EmailBlur ==
    /\ FirmInputStepShown(formState)
    /\ Len(formState.enteredFirms) = 0
    /\ emailError' = IF formState.userEmail # <<>> /\ ~validateEmail(formState.userEmail)
                     THEN "Please enter a valid email address"
                     ELSE emailError
    /\ effects' = [NoEffects EXCEPT !.op = "emailBlur"]
    /\ UNCHANGED <<svcVars, relayVars, inputVars, formState, loading, firmInputError, currentFirmInput,
                   formData, errors, contactTimers, pendingFinish, nextId, submitted>>

\* a reset that carries the email over to the next submission
NewSubmission_keepsEmail ==
    /\ FormCompleteStepShown(formState)
    /\ formState' = [initialFormState EXCEPT !.userEmail = formState.userEmail]
    /\ currentFirmInput' = <<>>
    /\ firmInputError' = ""
    /\ emailError' = ""
    /\ effects' = [NoEffects EXCEPT !.op = "newSubmission"]
    /\ KeepContactForm
    /\ UNCHANGED <<svcVars, relayVars, inputVars, loading, contactTimers, pendingFinish, nextId>>
    /\ submitted' = {}

\* AdvisorForm.handleNewSubmission, handed to FormCompleteStep
NewSubmission ==
    /\ FormCompleteStepShown(formState)
    /\ formState' = initialFormState
    /\ currentFirmInput' = <<>>
    /\ firmInputError' = ""
    /\ emailError' = ""
    /\ effects' = [NoEffects EXCEPT !.op = "newSubmission"]
    /\ KeepContactForm
    /\ UNCHANGED <<svcVars, relayVars, inputVars, loading, contactTimers, pendingFinish, nextId>>
    /\ submitted' = {}

\* a removal whose filter test is inverted: it keeps the entry with the id
RemoveFirm_keepsOnlyThatEntry ==
    /\ FirmInputStepShown(formState)
    /\ \E k \in 1..Len(formState.enteredFirms) :
          LET firmId == formState.enteredFirms[k].id
              Keep(firm) == firm.id = firmId
          IN  /\ formState' = [formState EXCEPT !.enteredFirms = SelectSeq(@, Keep)]
              /\ effects' = [op |-> "removeFirm", lookups |-> 0, toasts |-> <<>>,
                             requests |-> 0, completes |-> 0, firmId |-> firmId]
    /\ UNCHANGED <<svcVars, relayVars, inputVars, loading, firmInputError, currentFirmInput, emailError,
                   formData, errors, contactTimers, pendingFinish, nextId>>
    /\ submitted' = {}

\* AdvisorForm.handleRemoveFirm(firmId), handed to FirmInputStep; effects
\* records the id the handler was called with
RemoveFirm ==
    /\ FirmInputStepShown(formState)
    /\ \E k \in 1..Len(formState.enteredFirms) :
          LET firmId == formState.enteredFirms[k].id
              Keep(firm) == firm.id # firmId
          IN  /\ formState' = [formState EXCEPT !.enteredFirms = SelectSeq(@, Keep)]
              /\ effects' = [op |-> "removeFirm", lookups |-> 0, toasts |-> <<>>,
                             requests |-> 0, completes |-> 0, firmId |-> firmId]
    /\ UNCHANGED <<svcVars, relayVars, inputVars, loading, firmInputError, currentFirmInput, emailError,
                   formData, errors, contactTimers, pendingFinish, nextId>>
    /\ submitted' = {}

Next ==
    \/ FirmInputChange
    \/ FirmInputSubmit
    \/ ContactFieldChange
    \/ ContactFormSubmit
    \/ ContactTimerFires
    \/ ContactFormCancel
    \/ FinishClick
    \/ FinishSettles
    \/ EmailChange
    \/ EmailBlur
    \/ NewSubmission
    \/ RemoveFirm

----------------------------------------------------------------------------
(* The submission relay: handler(event, context), src/unnamed/part_000.      *)
(* JavaScript values carry their type, so that truthiness, Array.isArray,    *)
(* property access and string conversion are computed on them.               *)

\* longest firms list a request carries
MaxRelayFirms == 2

Undefined == [t |-> "undefined"]
JNull == [t |-> "null"]
Bool(b) == [t |-> "boolean", v |-> b]
Num(n) == [t |-> "number", v |-> n]
Str(s) == [t |-> "string", v |-> s]
Arr(seq) == [t |-> "array", v |-> seq]
Obj(rec) == [t |-> "object", v |-> rec]

\* ToBoolean
Truthy(x) ==
    CASE x.t \in {"undefined", "null"} -> FALSE
      [] x.t = "boolean" -> x.v
      [] x.t = "number" -> x.v # 0
      [] x.t = "string" -> x.v # ""
      [] OTHER -> TRUE

\* Array.isArray
IsArray(x) == x.t = "array"

\* reading a property of null or undefined throws a TypeError
ThrowsOnAccess(x) == x.t \in {"undefined", "null"}

\* o[key] or o.key for a value that allows property access
Get(o, key) ==
    IF o.t = "object" /\ key \in DOMAIN o.v THEN o.v[key] ELSE Undefined

\* string conversion in a template literal, for the values a field can take
ToStr(x) ==
    CASE x.t = "string" -> x.v
      [] x.t = "undefined" -> "undefined"
      [] x.t = "null" -> "null"
      [] x.t = "boolean" -> (IF x.v THEN "true" ELSE "false")
      [] x.t = "number" -> (IF x.v = 0 THEN "0" ELSE "1")
      [] x.t = "array" -> ""
      [] OTHER -> "[object Object]"

\* a text is absent (event.body of a request without a body is null), is not
\* JSON, or is the JSON text of a value
NoBody == [kind |-> "null"]
Malformed == [kind |-> "malformed"]
JSONstringify(value) == [kind |-> "json", value |-> value]

\* JSON.parse: null is converted to the text "null", which parses to null; a
\* text that is not JSON throws a SyntaxError
JSONparse(text) ==
    CASE text.kind = "json" -> [threw |-> FALSE, value |-> text.value]
      [] text.kind = "null" -> [threw |-> FALSE, value |-> JNull]
      [] OTHER -> [threw |-> TRUE]

\* the properties an object literal inherits from Object.prototype
ObjectPrototypeKeys == {"constructor", "toString", "valueOf", "hasOwnProperty"}

\* formatRelationshipStrength(value): mapping[value] || 'Not specified'
formatRelationshipStrength(value) ==
    LET mapping == [x \in {"very-strong", "strong", "moderate", "weak"} |->
                       CASE x = "very-strong" -> "Very Strong"
                         [] x = "strong" -> "Strong"
                         [] x = "moderate" -> "Moderate"
                         [] OTHER -> "Weak"]
        key == ToStr(value)
    IN  IF key \in DOMAIN mapping THEN mapping[key]
        ELSE IF key \in ObjectPrototypeKeys THEN "function " \o key
        ELSE "Not specified"

\* formatContactFrequency(value): mapping[value] || 'Not specified'
formatContactFrequency(value) ==
    LET mapping == [x \in {"quarterly", "annually", "occasionally", "recently"} |->
                       CASE x = "quarterly" -> "Quarterly"
                         [] x = "annually" -> "Annually"
                         [] x = "occasionally" -> "Occasionally"
                         [] OTHER -> "Recently"]
        key == ToStr(value)
    IN  IF key \in DOMAIN mapping THEN mapping[key]
        ELSE IF key \in ObjectPrototypeKeys THEN "function " \o key
        ELSE "Not specified"

\* the fields of one firm's section
firmFields(firm) ==
    LET fields ==
            << [label |-> "Firm Name", text |-> ToStr(Get(firm, "firmName"))],
               [label |-> "Status",
                text |-> IF Truthy(Get(firm, "isMatched")) THEN "Matched"
                         ELSE "Not Matched"] >>
    IN  IF Truthy(Get(firm, "isMatched")) /\ Truthy(Get(firm, "contactName"))
        THEN fields \o
             << [label |-> "Contact Name", text |-> ToStr(Get(firm, "contactName"))],
                [label |-> "Designation",
                 text |-> IF Truthy(Get(firm, "contactDesignation"))
                          THEN ToStr(Get(firm, "contactDesignation"))
                          ELSE "Not specified"],
                [label |-> "Relationship",
                 text |-> formatRelationshipStrength(Get(firm, "relationshipStrength"))],
                [label |-> "Contact Frequency",
                 text |-> formatContactFrequency(Get(firm, "contactFrequency"))] >>
        ELSE fields

\* firms.flatMap(...): per firm a heading, the section of its fields and a divider
firmBlocks(firms_) ==
    [index \in 1..Len(firms_) |->
        [heading |-> index, fields |-> firmFields(firms_[index])]]

\* the message posted to the webhook (its submission time is left out)
slackMessage(firms_, userEmail) ==
    [text |-> "New Network Assist Form Submission",
     userEmail |-> IF Truthy(userEmail) THEN ToStr(userEmail) ELSE "Not provided",
     totalFirms |-> Len(firms_),
     blocks |-> firmBlocks(firms_)]

\* the responses the handler returns
MethodNotAllowed ==
    [statusCode |-> 405,
     headers |-> [ContentType |-> "application/json", AllowOrigin |-> "*",
                  AllowHeaders |-> "Content-Type", AllowMethods |-> "POST, OPTIONS"],
     body |-> JSONstringify([error |-> "Method not allowed"])]

Preflight ==
    [statusCode |-> 200,
     headers |-> [AllowOrigin |-> "*", AllowHeaders |-> "Content-Type",
                  AllowMethods |-> "POST, OPTIONS"],
     body |-> [kind |-> "empty"]]

MissingFields ==
    [statusCode |-> 400,
     headers |-> [ContentType |-> "application/json", AllowOrigin |-> "*"],
     body |-> JSONstringify([error |-> "Missing required fields"])]

ConfigurationError ==
    [statusCode |-> 500,
     headers |-> [ContentType |-> "application/json", AllowOrigin |-> "*"],
     body |-> JSONstringify([error |-> "Server configuration error"])]

InternalError ==
    [statusCode |-> 500,
     headers |-> [ContentType |-> "application/json", AllowOrigin |-> "*"],
     body |-> JSONstringify([error |-> "Internal server error",
                             message |-> "Failed to process form submission"])]

Success ==
    [statusCode |-> 200,
     headers |-> [ContentType |-> "application/json", AllowOrigin |-> "*"],
     body |-> JSONstringify([success |-> TRUE,
                             message |-> "Form submitted successfully!"])]

NoResponse == [statusCode |-> 0]

\* the invocation has returned `resp`
Returns(resp, parsed) ==
    [pc |-> "done", parsed |-> parsed, posts |-> <<>>, response |-> resp]

\* the invocation is suspended at `await fetch(webhookUrl, ...)`
AwaitsFetch(message) ==
    [pc |-> "awaiting", parsed |-> TRUE, posts |-> <<message>>, response |-> NoResponse]

\* a handler that answers the preflight before it rejects other methods
handler_preflightFirst(ev, webhookUrl) ==
    IF ev.httpMethod = "OPTIONS" THEN Returns(Preflight, FALSE)
    ELSE IF ev.httpMethod # "POST" THEN Returns(MethodNotAllowed, FALSE)
    ELSE
        LET formData_ == JSONparse(ev.body)
        IN  IF formData_.threw \/ ThrowsOnAccess(formData_.value)
            THEN Returns(InternalError, TRUE)
            ELSE
                LET firms_ == Get(formData_.value, "firms")
                    userEmail == Get(formData_.value, "userEmail")
                IN  IF ~Truthy(firms_) \/ ~IsArray(firms_) \/ Len(firms_.v) = 0
                    THEN Returns(MissingFields, TRUE)
                    ELSE IF \E i \in 1..Len(firms_.v) : ThrowsOnAccess(firms_.v[i])
                    THEN Returns(InternalError, TRUE)
                    ELSE IF ~Truthy(webhookUrl)
                    THEN Returns(ConfigurationError, TRUE)
                    ELSE AwaitsFetch(slackMessage(firms_.v, userEmail))

\* handler(event, context) up to `await fetch(webhookUrl, ...)`.  Everything
\* from JSON.parse on runs inside try; an exception (a SyntaxError of
\* JSON.parse, a TypeError of destructuring null or of reading a property of a
\* null list element) is caught and answered with InternalError.
handler(ev, webhookUrl) ==
    IF ev.httpMethod # "POST" THEN Returns(MethodNotAllowed, FALSE)
    ELSE IF ev.httpMethod = "OPTIONS" THEN Returns(Preflight, FALSE)
    ELSE
        LET formData_ == JSONparse(ev.body)
        IN  IF formData_.threw \/ ThrowsOnAccess(formData_.value)
            THEN Returns(InternalError, TRUE)
            ELSE
                LET firms_ == Get(formData_.value, "firms")
                    userEmail == Get(formData_.value, "userEmail")
                IN  IF ~Truthy(firms_) \/ ~IsArray(firms_) \/ Len(firms_.v) = 0
                    THEN Returns(MissingFields, TRUE)
                    ELSE IF \E i \in 1..Len(firms_.v) : ThrowsOnAccess(firms_.v[i])
                    THEN Returns(InternalError, TRUE)
                    ELSE IF ~Truthy(webhookUrl)
                    THEN Returns(ConfigurationError, TRUE)
                    ELSE AwaitsFetch(slackMessage(firms_.v, userEmail))

\* how the webhook call can end: response.ok, a response that is not ok, or a
\* rejected fetch
WebhookOutcomes == {"ok", "not-ok", "throws"}

\* a handler that does not look at response.ok
handlerAfterFetch_ignoresStatus(outcome) ==
    IF outcome \in {"ok", "not-ok"} THEN Success ELSE InternalError

\* handler(event, context) after `await fetch(webhookUrl, ...)`
handlerAfterFetch(outcome) ==
    IF outcome = "ok" THEN Success ELSE InternalError

\* the firms a request can list
FirmItems ==
    {JNull,
     Obj([firmName |-> Str("ba"), isMatched |-> Bool(FALSE)]),
     Obj([firmName |-> Str("Ab"), isMatched |-> Bool(TRUE),
          contactName |-> Str("J"), contactDesignation |-> Str("P"),
          relationshipStrength |-> Str("strong"),
          contactFrequency |-> Str("quarterly")]),
     Obj([firmName |-> Str("b"), isMatched |-> Bool(TRUE),
          contactName |-> Str("J"), contactDesignation |-> Str(""),
          relationshipStrength |-> Str("constructor"),
          contactFrequency |-> Str("daily")]),
     Obj([firmName |-> Str("bA"), isMatched |-> Bool(FALSE),
          contactName |-> Str("J"), contactDesignation |-> Str("P"),
          relationshipStrength |-> Str("weak"),
          contactFrequency |-> Str("recently")]),
     Obj([firmName |-> Str("Ab"), isMatched |-> Bool(TRUE)])}

\* the values of `firms` in a request body
FirmsValues ==
    {Undefined, JNull, Str("Ab"), Num(0), Obj([firmName |-> Str("Ab")])}
        \cup {Arr(list) : list \in UNION {[1..n -> FirmItems] : n \in 0..MaxRelayFirms}}

\* the request bodies
Bodies ==
    {NoBody, Malformed, JSONstringify(JNull), JSONstringify(Num(1)),
     JSONstringify(Arr(<<>>))}
        \cup {JSONstringify(Obj([firms |-> f, userEmail |-> e])) :
                 f \in FirmsValues \ {Undefined},
                 e \in {Str(""), Str("a@b.c")}}
        \cup {JSONstringify(Obj([userEmail |-> e])) : e \in {Str("a@b.c")}}
        \cup {JSONstringify(Obj([firms |-> f])) : f \in FirmsValues \ {Undefined}}

Methods == {"POST", "OPTIONS", "GET", "PUT"}

\* process.env with and without WEBHOOK_URL
Envs == {[WEBHOOK_URL |-> Undefined], [WEBHOOK_URL |-> Str("https://hook")]}

\* the platform invokes the handler with the request
RelayHandles ==
    /\ relay.pc = "received"
    /\ LET run == handler(event, env.WEBHOOK_URL)
       IN  /\ relay' = [pc |-> run.pc, parsed |-> run.parsed, posts |-> run.posts]
           /\ response' = run.response
    /\ UNCHANGED <<svcVars, formVars, event, env, inputVars>>

\* the webhook call settles and the handler returns
WebhookSettles ==
    /\ relay.pc = "awaiting"
    /\ \E outcome \in WebhookOutcomes :
          /\ relay' = [relay EXCEPT !.pc = "done"] @@ [outcome |-> outcome]
          /\ response' = handlerAfterFetch(outcome)
    /\ UNCHANGED <<svcVars, formVars, event, env, inputVars>>

\* no request has been made
RelayAtRest ==
    /\ event = [httpMethod |-> "none", body |-> NoBody]
    /\ env = [WEBHOOK_URL |-> Undefined]
    /\ relay = [pc |-> "none", parsed |-> FALSE, posts |-> <<>>]
    /\ response = NoResponse

----------------------------------------------------------------------------
(* The request of handleFinish as the relay receives it *)

\* the JavaScript string with these characters
RECURSIVE Text(_)
Text(s) == IF s = <<>> THEN "" ELSE Head(s) \o Text(Tail(s))

\* a FirmEntry as JSON.stringify writes it: the optional contact properties are
\* present on the entries handleContactSubmit builds
EntryValue(e) ==
    IF "contactName" \in DOMAIN e
    THEN Obj([id |-> Str(ToString(e.id)),
              firmName |-> Str(Text(e.firmName)),
              isMatched |-> Bool(e.isMatched),
              contactName |-> Str(Text(e.contactName)),
              contactDesignation |-> Str(Text(e.contactDesignation)),
              relationshipStrength |-> Str(e.relationshipStrength),
              contactFrequency |-> Str(e.contactFrequency)])
    ELSE Obj([id |-> Str(ToString(e.id)),
              firmName |-> Str(Text(e.firmName)),
              isMatched |-> Bool(e.isMatched)])

\* fetch('/.netlify/functions/submit-form', {method: 'POST', body: ...})
finishRequest(p) ==
    [httpMethod |-> "POST",
     body |-> JSONstringify(Obj(
                 [firms |-> Arr([i \in 1..Len(p.finalFirms) |-> EntryValue(p.finalFirms[i])]),
                  userEmail |-> Str(Text(p.userEmail))]))]

----------------------------------------------------------------------------
(* FirmInput: the autocomplete input.  value is the prop its parent controls *)
(* (currentFirmInput of AdvisorForm); suggestions, showSuggestions and       *)
(* selectedIndex are its useState cells.  selectedIndex counts from 0 as in  *)
(* the source, sequences count from 1.                                        *)

\* the fixture directory the input completes against: names long enough to be
\* suggested, two of them sharing a prefix
InputDirectory == << <<"A", "b", "a">>, <<"a", "b", "A", "b">>, <<"b", "b", "b">> >>

\* what the user can type or paste into the input
TypedValues ==
    {<<>>, <<" ", " ", " ">>, <<"a", "b">>, <<"a", "b", "a">>, <<"A", "b", "a">>,
     <<" ", "a", "b">>, <<"b", "b", " ">>, <<"a", "a", "a">>}

\* the keys handleKeyDown distinguishes, and one it ignores
Keys == {"ArrowDown", "ArrowUp", "Enter", "Escape", "Tab", "a"}

noSubmit == <<>>

\* the suggestion list is rendered
ListShown(fi) == fi.showSuggestions /\ Len(fi.suggestions) > 0

\* useEffect(..., [value]): runs after the render in which value changed and
\* reads showSuggestions of that render
valueEffect(fi) ==
    IF Len(fi.value) >= 3
    THEN LET firmSuggestions == getFirmSuggestions(firms, fi.value, 8)
         IN  [fi EXCEPT !.suggestions = firmSuggestions,
                        !.showSuggestions = IF ~fi.showSuggestions
                                            THEN Len(firmSuggestions) > 0
                                            ELSE fi.showSuggestions,
                        !.selectedIndex = -1]
    ELSE [fi EXCEPT !.suggestions = <<>>,
                    !.showSuggestions = FALSE,
                    !.selectedIndex = -1]

\* the render after a handler, followed by the effect when value has changed
Rendered(old, new) == IF new.value # old.value THEN valueEffect(new) ELSE new

\* handleInputFocus()
handleInputFocus(fi) ==
    IF Len(fi.suggestions) > 0 /\ Len(fi.value) >= 2
    THEN [fi EXCEPT !.showSuggestions = TRUE]
    ELSE fi

\* handleSuggestionClick(suggestion); refocused tells whether
\* inputRef.current.focus() moved the focus and so ran handleInputFocus of the
\* same render
handleSuggestionClick(fi, suggestion, refocused) ==
    [fi EXCEPT !.value = suggestion,
               !.showSuggestions = IF refocused
                                   THEN handleInputFocus(fi).showSuggestions
                                   ELSE FALSE,
               !.selectedIndex = -1]

\* the parent's onSubmit (handleFirmSubmit) clears the input when it accepts
\* the name and leaves it when it rejects it
AfterOnSubmit(fi) == {fi, [fi EXCEPT !.value = <<>>]}

\* onChange of the input: handleInputChange
InputTyped ==
    /\ \E v \in TypedValues \ {firmInput.value} :
          firmInput' = [Rendered(firmInput,
                                 [firmInput EXCEPT !.value = v,
                                                   !.showSuggestions = TRUE])
                           EXCEPT !.last = [op |-> "change", onSubmit |-> noSubmit]]
    /\ UNCHANGED <<svcVars, formVars, relayVars>>

\* handleKeyDown without Enter: the arrows move the highlight, Escape and Tab
\* close the list, and nothing happens while the list state is off
handleKeyDown(fi, key) ==
    IF ~fi.showSuggestions THEN fi
    ELSE CASE key = "ArrowDown" ->
                  [fi EXCEPT !.selectedIndex =
                      IF @ < Len(fi.suggestions) - 1 THEN @ + 1 ELSE @]
           [] key = "ArrowUp" ->
                  [fi EXCEPT !.selectedIndex = IF @ > 0 THEN @ - 1 ELSE -1]
           [] key \in {"Escape", "Tab"} ->
                  [fi EXCEPT !.showSuggestions = FALSE, !.selectedIndex = -1]
           [] OTHER -> fi

\* onKeyDown of the input with a key other than Enter
KeyDown ==
    /\ \E key \in Keys \ {"Enter"} :
          firmInput' = [handleKeyDown(firmInput, key)
                           EXCEPT !.last = [op |-> key, onSubmit |-> noSubmit]]
    /\ UNCHANGED <<svcVars, formVars, relayVars>>

\* onKeyDown of the input with Enter; the input has the focus, so focus() in
\* handleSuggestionClick changes nothing
EnterKeyDown ==
    /\ IF firmInput.showSuggestions /\ firmInput.selectedIndex >= 0 THEN
           LET suggestion == firmInput.suggestions[firmInput.selectedIndex + 1]
           IN  firmInput' =
                   [Rendered(firmInput, handleSuggestionClick(firmInput, suggestion, FALSE))
                       EXCEPT !.last = [op |-> "Enter", onSubmit |-> noSubmit]]
       ELSE IF trim(firmInput.value) # <<>> THEN
           \E fi \in AfterOnSubmit(firmInput) :
               firmInput' = [Rendered(firmInput, fi)
                                EXCEPT !.last = [op |-> "Enter",
                                                 onSubmit |-> <<trim(firmInput.value)>>]]
       ELSE firmInput' = [firmInput EXCEPT !.last = [op |-> "Enter",
                                                     onSubmit |-> noSubmit]]
    /\ UNCHANGED <<svcVars, formVars, relayVars>>

\* onClick of a rendered suggestion
SuggestionClick ==
    /\ ListShown(firmInput)
    /\ \E k \in 1..Len(firmInput.suggestions), refocused \in BOOLEAN :
          firmInput' =
              [Rendered(firmInput,
                        handleSuggestionClick(firmInput, firmInput.suggestions[k],
                                              refocused))
                  EXCEPT !.last = [op |-> "suggestionClick", onSubmit |-> noSubmit]]
    /\ UNCHANGED <<svcVars, formVars, relayVars>>

\* onMouseEnter of a rendered suggestion
SuggestionMouseEnter ==
    /\ ListShown(firmInput)
    /\ \E k \in 1..Len(firmInput.suggestions) :
          firmInput' = [firmInput EXCEPT !.selectedIndex = k - 1,
                                         !.last = [op |-> "mouseEnter",
                                                   onSubmit |-> noSubmit]]
    /\ UNCHANGED <<svcVars, formVars, relayVars>>

\* the setTimeout callback of handleInputBlur, the focus having left the input
\* and the list
InputBlurTimeout ==
    /\ firmInput' = [firmInput EXCEPT !.showSuggestions = FALSE,
                                      !.selectedIndex = -1,
                                      !.last = [op |-> "blur", onSubmit |-> noSubmit]]
    /\ UNCHANGED <<svcVars, formVars, relayVars>>

\* onFocus of the input
InputFocus ==
    /\ firmInput' = [handleInputFocus(firmInput)
                        EXCEPT !.last = [op |-> "focus", onSubmit |-> noSubmit]]
    /\ UNCHANGED <<svcVars, formVars, relayVars>>

\* onClick of the Add Firm button, which is disabled while value.trim() is
\* empty: handleSubmitClick
SubmitClick ==
    /\ trim(firmInput.value) # <<>>
    /\ \E fi \in AfterOnSubmit(firmInput) :
          firmInput' = [Rendered(firmInput, fi)
                           EXCEPT !.last = [op |-> "submitClick",
                                            onSubmit |-> <<trim(firmInput.value)>>]]
    /\ UNCHANGED <<svcVars, formVars, relayVars>>

\* the input as mounted
FirmInputAtRest ==
    firmInput = [value |-> <<>>, suggestions |-> <<>>, showSuggestions |-> FALSE,
                 selectedIndex |-> -1,
                 last |-> [op |-> "none", onSubmit |-> noSubmit]]

----------------------------------------------------------------------------
(* Initial states *)

FormAtRest ==
    /\ formState = initialFormState
    /\ loading = FALSE
    /\ firmInputError = ""
    /\ currentFirmInput = <<>>
    /\ emailError = ""
    /\ formData = blankFormData
    /\ errors = {}
    /\ contactTimers = <<>>
    /\ pendingFinish = <<>>
    /\ nextId = 1
    /\ submitted = {}
    /\ effects = NoEffects

Init ==
    /\ firms = Directory
    /\ loaded = Directory
    /\ returned = <<>>
    /\ aliased = FALSE
    /\ hasReturned = FALSE
    /\ call = [op |-> "none", arg |-> <<>>]
    /\ FormAtRest
    /\ FirmInputAtRest
    /\ RelayAtRest

Spec == Init /\ [][Next]_vars

\* the promise of fetch settles: it resolves or it rejects, and the rest of
\* handleFinish then runs
SpecLive == Init /\ [][Next]_vars /\ WF_vars(FinishSettles)

\* the service under any directory and any argument, with the form at rest
InitService ==
    /\ firms \in Dirs
    /\ loaded = firms
    /\ returned = <<>>
    /\ aliased = FALSE
    /\ hasReturned = FALSE
    /\ \E s \in Names : call = [op |-> "none", arg |-> s]
    /\ FormAtRest
    /\ FirmInputAtRest
    /\ RelayAtRest

NextService ==
    \/ CallIsValidFirm
    \/ CallGetExactFirmName
    \/ CallGetFirmSuggestions

SpecService == InitService /\ [][NextService]_vars

\* the service under any directory, with callers that keep and change the
\* arrays getAllFirms gives them
InitCopy ==
    /\ firms \in Dirs
    /\ loaded = firms
    /\ returned = <<>>
    /\ aliased = FALSE
    /\ hasReturned = FALSE
    /\ call = [op |-> "none", arg |-> <<>>]
    /\ FormAtRest
    /\ FirmInputAtRest
    /\ RelayAtRest

NextCopy ==
    \/ CallGetAllFirms
    \/ CallerMutates

SpecCopy == InitCopy /\ [][NextCopy]_vars

\* the relay handler invoked once with any request, with and without a
\* configured webhook, the directory and the form at rest
InitRelay ==
    /\ firms = Directory
    /\ loaded = Directory
    /\ returned = <<>>
    /\ aliased = FALSE
    /\ hasReturned = FALSE
    /\ call = [op |-> "none", arg |-> <<>>]
    /\ FormAtRest
    /\ FirmInputAtRest
    /\ event \in [httpMethod : Methods, body : Bodies]
    /\ env \in Envs
    /\ relay = [pc |-> "received", parsed |-> FALSE, posts |-> <<>>]
    /\ response = NoResponse

NextRelay ==
    \/ RelayHandles
    \/ WebhookSettles

SpecRelay == InitRelay /\ [][NextRelay]_vars

\* the two deployed components: a behaviour is one of the form controller
\* (no relay invocation is under way) or one of a relay invocation
InitSystem == Init \/ InitRelay

NextSystem ==
    \/ relay.pc = "none" /\ Next
    \/ NextRelay

SpecSystem == InitSystem /\ [][NextSystem]_vars

\* the directory service and its client: a behaviour is one query of the
\* service under any directory, or a behaviour of the form controller over the
\* fixture directory
InitLookup == InitService \/ Init

NextLookup ==
    \/ effects = NoEffects /\ NextService
    \/ (firms = Directory /\ call = [op |-> "none", arg |-> <<>>]) /\ Next

SpecLookup == InitLookup /\ [][NextLookup]_vars

\* the autocomplete input over its fixture directory, its parent at rest
InitFirmInput ==
    /\ firms = InputDirectory
    /\ loaded = InputDirectory
    /\ returned = <<>>
    /\ aliased = FALSE
    /\ hasReturned = FALSE
    /\ call = [op |-> "none", arg |-> <<>>]
    /\ FormAtRest
    /\ FirmInputAtRest
    /\ RelayAtRest

NextFirmInput ==
    \/ InputTyped
    \/ KeyDown
    \/ EnterKeyDown
    \/ SuggestionClick
    \/ SuggestionMouseEnter
    \/ InputBlurTimeout
    \/ InputFocus
    \/ SubmitClick

SpecFirmInput == InitFirmInput /\ [][NextFirmInput]_vars

----------------------------------------------------------------------------
(* Properties.  The vocabulary below is stated on its own, without trim(),  *)
(* toLowerCase(), startsWith() or includes().                               *)

\* s consists of whitespace only (the empty string included)
Blank(s) == \A k \in 1..Len(s) : s[k] = " "

\* x and y are the same string up to letter case
EqIgnoreCase(x, y) ==
    Len(x) = Len(y) /\ \A k \in 1..Len(x) : lowerChar(x[k]) = lowerChar(y[k])

\* t is s without its leading and trailing whitespace
IsTrimOf(t, s) ==
    \E lo \in 1..(Len(s) + 1), hi \in 0..Len(s) :
        /\ t = SubSeq(s, lo, hi)
        /\ \A k \in 1..Len(s) : (k < lo \/ k > hi) => s[k] = " "
        /\ t = <<>> \/ (t[1] # " " /\ t[Len(t)] # " ")

\* the pieces of s, one of which is its trimmed form
Pieces(s) == {SubSeq(s, lo, hi) : lo \in 1..(Len(s) + 1), hi \in 0..Len(s)}

\* the entry equals the argument after trimming, ignoring case
MatchesEntry(entry, arg) ==
    \E t \in Pieces(arg) : IsTrimOf(t, arg) /\ EqIgnoreCase(entry, t)

\* the entry has a first and a last character and neither is whitespace
Clean(entry) == entry # <<>> /\ entry[1] # " " /\ entry[Len(entry)] # " "

\* C1: isValidFirm(s) is true exactly when s is not blank and some directory
\* entry equals s after trimming, ignoring case; for the empty string and for
\* whitespace-only strings it is false.
C1_IsValidFirmIffEntry ==
    call.op = "isValidFirm" =>
        call.result = (~Blank(call.arg)
                       /\ \E i \in 1..Len(firms) : MatchesEntry(firms[i], call.arg))

\* C1 witness: a padded argument in another letter case is found valid
C1_Witness ==
    /\ call.op = "isValidFirm"
    /\ call.result = TRUE
    /\ call.arg[1] = " "
    /\ \A i \in 1..Len(firms) : firms[i] # call.arg /\ ~IsTrimOf(firms[i], call.arg)

\* C2 as stated: for every directory entry e, getExactFirmName(e.toLowerCase())
\* returns e exactly, whatever the directory holds.
C2_Original ==
    call.op = "getExactFirmName" =>
        \A i \in 1..Len(firms) :
            call.arg = [k \in 1..Len(firms[i]) |-> lowerChar(firms[i][k])]
                => call.result = firms[i]

\* C2 amended: for every directory entry e that is not empty and has no leading
\* or trailing whitespace, getExactFirmName(e.toLowerCase()) returns the first
\* directory entry that equals e ignoring case: e itself exactly when no earlier
\* entry differs from e only in letter case.
C2_FirstEntryIgnoringCase ==
    call.op = "getExactFirmName" =>
        \A i \in 1..Len(firms) :
            (Clean(firms[i])
             /\ call.arg = [k \in 1..Len(firms[i]) |-> lowerChar(firms[i][k])])
                => \E j \in 1..i :
                      /\ call.result = firms[j]
                      /\ EqIgnoreCase(firms[j], firms[i])
                      /\ \A k \in 1..(j - 1) : ~EqIgnoreCase(firms[k], firms[i])

\* C2 witness: the lowercased form of an entry spelled with a capital comes
\* back as the entry
C2_Witness ==
    /\ call.op = "getExactFirmName"
    /\ \E i \in 1..Len(firms) :
          /\ Clean(firms[i])
          /\ call.arg = [k \in 1..Len(firms[i]) |-> lowerChar(firms[i][k])]
          /\ call.arg # firms[i]
          /\ call.result = firms[i]

\* the normalized form of the argument of the last call
NormalizedArg ==
    LET t == CHOOSE x \in Pieces(call.arg) : IsTrimOf(x, call.arg)
    IN  [k \in 1..Len(t) |-> lowerChar(t[k])]

\* positions of the entries that start with n, ignoring case
PrefixPositions(n) ==
    {i \in 1..Len(firms) :
        /\ Len(n) <= Len(firms[i])
        /\ \A k \in 1..Len(n) : lowerChar(firms[i][k]) = n[k]}

\* positions of the entries that contain n, ignoring case, without starting
\* with it
SubstringOnlyPositions(n) ==
    {i \in 1..Len(firms) :
        /\ i \notin PrefixPositions(n)
        /\ \E off \in 0..(Len(firms[i]) - Len(n)) :
              \A k \in 1..Len(n) : lowerChar(firms[i][off + k]) = n[k]}

\* the place of position i in the ranking: the prefix matches P first, then
\* the substring-only matches S, each group in directory order
Rank(i, P, S) ==
    IF i \in P
    THEN Cardinality({j \in P : j <= i})
    ELSE Cardinality(P) + Cardinality({j \in S : j <= i})

\* C3: for a non-blank input and maxSuggestions >= 0 the result has at most
\* maxSuggestions entries and is the first maxSuggestions elements of the prefix
\* matches (directory order) followed by the substring-only matches (directory
\* order); a blank input gives the empty sequence.
C3_SuggestionsRanked ==
    (call.op = "getFirmSuggestions" /\ call.max >= 0) =>
        IF Blank(call.arg) THEN call.result = <<>>
        ELSE LET n == NormalizedArg
                 P == PrefixPositions(n)
                 S == SubstringOnlyPositions(n)
             IN  /\ Len(call.result) <= call.max
                 /\ Len(call.result) = Min(call.max, Cardinality(P \cup S))
                 /\ \A k \in 1..Len(call.result) :
                       \E i \in P \cup S :
                           Rank(i, P, S) = k /\ call.result[k] = firms[i]

\* C3 witness: a prefix match is listed before a substring-only match that
\* precedes it in the directory
C3_Witness ==
    /\ call.op = "getFirmSuggestions"
    /\ ~Blank(call.arg)
    /\ \E i \in SubstringOnlyPositions(NormalizedArg),
          j \in PrefixPositions(NormalizedArg) :
          i < j /\ call.result = <<firms[j], firms[i]>>

\* C4: whatever callers do to the arrays getAllFirms gave them, the directory
\* is as loaded, and isValidFirm, getExactFirmName, getFirmSuggestions and
\* getAllFirms answer as they did before.
C4_GetAllFirmsIsACopy ==
    /\ firms = loaded
    /\ getAllFirms(firms).content = loaded
    /\ \A s \in Names :
          /\ isValidFirm(firms, s) = isValidFirm(loaded, s)
          /\ getExactFirmName(firms, s) = getExactFirmName(loaded, s)
          /\ getFirmSuggestions(firms, s, MaxSuggestions)
                = getFirmSuggestions(loaded, s, MaxSuggestions)

\* C4 witness: a caller has changed the array it was given
C4_Witness == hasReturned /\ returned # loaded

----------------------------------------------------------------------------
(* Properties of the form controller *)

\* the email reads x@y.z with x, y and z non-empty and free of whitespace and @
WellFormed(email) ==
    /\ \A k \in 1..Len(email) : email[k] # " "
    /\ Cardinality({k \in 1..Len(email) : email[k] = "@"}) = 1
    /\ email[1] # "@"
    /\ \E a \in 1..Len(email), d \in 1..Len(email) :
          email[a] = "@" /\ email[d] = "." /\ a + 1 < d /\ d < Len(email)

EmailRequiredErrors ==
    {"Please enter your email address before adding a firm",
     "Please enter a valid email address before adding a firm"}

DuplicateError == "This firm has already been entered"

ContactFields ==
    {"contactName", "contactDesignation", "relationshipStrength", "contactFrequency"}

\* the step is a firm submission
FirmSubmitted == effects'.op = "firmSubmit"

\* the name being submitted repeats an accumulated entry, ignoring case
RepeatsEntry ==
    \E i \in 1..Len(formState.enteredFirms) :
        MatchesEntry(formState.enteredFirms[i].firmName, currentFirmInput)

\* the name being submitted matches the directory
InDirectory == \E i \in 1..Len(firms) : MatchesEntry(firms[i], currentFirmInput)

\* C5: a firm submission made while the recorded email is empty or not
\* well-formed leaves enteredFirms, currentStep and currentFirmName alone, sets
\* an email-required error and does not consult the directory.
C5_NoEmailNoSubmission ==
    [][(FirmSubmitted
        /\ (formState.userEmail = <<>> \/ ~WellFormed(formState.userEmail)))
       => /\ formState'.enteredFirms = formState.enteredFirms
          /\ formState'.currentStep = formState.currentStep
          /\ formState'.currentFirmName = formState.currentFirmName
          /\ emailError' \in EmailRequiredErrors
          /\ effects'.lookups = 0]_vars

\* C5 witness: a submission was turned away because of a malformed email
C5_Witness ==
    /\ effects.op = "firmSubmit"
    /\ formState.userEmail # <<>>
    /\ emailError = "Please enter a valid email address before adding a firm"
    /\ formState.enteredFirms = <<>>

\* C6 as stated: with a valid email, a name submitted before (no removal or
\* reset since) is answered with the duplicate error and enteredFirms is kept,
\* for matched and unmatched names alike.
C6_Original ==
    [][(FirmSubmitted
        /\ WellFormed(formState.userEmail)
        /\ \E n \in submitted : MatchesEntry(n, currentFirmInput))
       => /\ firmInputError' = DuplicateError
          /\ formState'.enteredFirms = formState.enteredFirms]_vars

\* C6 amended: with a valid email, a submission of a name that equals, ignoring
\* case, the firmName of an entry in enteredFirms (an unmatched name is there
\* from its submission on, a matched name only once its contact sub-form has
\* been completed) is answered with the duplicate error and changes nothing in
\* the form state.
C6_DuplicateOfEntryRejected ==
    [][(FirmSubmitted /\ WellFormed(formState.userEmail) /\ RepeatsEntry)
       => /\ firmInputError' = DuplicateError
          /\ formState' = formState]_vars

\* C6 witness: a matched entry's name, typed in another case and padded, was
\* turned away as a duplicate
C6_Witness ==
    /\ effects.op = "firmSubmit"
    /\ firmInputError = DuplicateError
    /\ \E i \in 1..Len(formState.enteredFirms) :
          /\ formState.enteredFirms[i].isMatched
          /\ MatchesEntry(formState.enteredFirms[i].firmName, currentFirmInput)
          /\ formState.enteredFirms[i].firmName # currentFirmInput

\* C7 as stated: in every reachable state enteredFirms holds no two entries
\* whose firmName values are equal ignoring case.
C7_Original ==
    \A i \in 1..Len(formState.enteredFirms), j \in 1..Len(formState.enteredFirms) :
        i # j => ~EqIgnoreCase(formState.enteredFirms[i].firmName,
                               formState.enteredFirms[j].firmName)

\* C8: an entry with isMatched = FALSE carries no contact field; an entry with
\* isMatched = TRUE carries all four, none of them empty.
C8_ContactFieldsIffMatched ==
    \A i \in 1..Len(formState.enteredFirms) :
        LET e == formState.enteredFirms[i]
        IN  IF e.isMatched
            THEN /\ ContactFields \subseteq DOMAIN e
                 /\ e.contactName # <<>>
                 /\ e.contactDesignation # <<>>
                 /\ e.relationshipStrength # ""
                 /\ e.contactFrequency # ""
            ELSE DOMAIN e \cap ContactFields = {}

\* C8 witness: the list holds a matched and an unmatched entry
C8_Witness ==
    \E i \in 1..Len(formState.enteredFirms), j \in 1..Len(formState.enteredFirms) :
        formState.enteredFirms[i].isMatched /\ ~formState.enteredFirms[j].isMatched

\* C9: with a valid email and no duplicate, submitting a name that is not in
\* the directory appends exactly one entry with isMatched = FALSE, the trimmed
\* name as submitted and no contact fields, stays in firm-input, clears the
\* input and calls onToast once.
C9_UnmatchedAppended ==
    [][(FirmSubmitted /\ WellFormed(formState.userEmail) /\ ~RepeatsEntry
        /\ ~InDirectory)
       => \E t \in Pieces(currentFirmInput) :
             /\ IsTrimOf(t, currentFirmInput)
             /\ Len(formState'.enteredFirms) = Len(formState.enteredFirms) + 1
             /\ SubSeq(formState'.enteredFirms, 1, Len(formState.enteredFirms))
                   = formState.enteredFirms
             /\ LET e == formState'.enteredFirms[Len(formState'.enteredFirms)]
                IN  /\ e.isMatched = FALSE
                    /\ e.firmName = t
                    /\ DOMAIN e \cap ContactFields = {}
             /\ formState'.currentStep = "firm-input"
             /\ currentFirmInput' = <<>>
             /\ Len(effects'.toasts) = 1]_vars

\* C9 witness: an unmatched name typed with a capital was added and toasted
C9_Witness ==
    /\ effects.op = "firmSubmit"
    /\ effects.toasts = << <<"b", "A">> >>
    /\ Len(formState.enteredFirms) > 0
    /\ formState.enteredFirms[Len(formState.enteredFirms)].firmName = <<"b", "A">>

\* C10 as stated: with a valid email and no duplicate, submitting a name that
\* is in the directory moves to contact-details with currentFirmName set to the
\* directory's spelling and currentFirmMatched = TRUE, and enteredFirms stays as
\* it is from then until the contact sub-form is completed.
C10_Original ==
    [][/\ (FirmSubmitted /\ WellFormed(formState.userEmail) /\ ~RepeatsEntry
           /\ InDirectory)
          => /\ formState'.currentStep = "contact-details"
             /\ formState'.currentFirmMatched = TRUE
             /\ \E i \in 1..Len(firms) :
                   /\ MatchesEntry(firms[i], currentFirmInput)
                   /\ formState'.currentFirmName = firms[i]
             /\ formState'.enteredFirms = formState.enteredFirms
       /\ (ContactDetailsStepShown(formState) /\ formState.currentFirmMatched
           /\ effects'.op # "contactTimer")
          => formState'.enteredFirms = formState.enteredFirms]_vars

----------------------------------------------------------------------------
(* Properties of the contact sub-form, removal, Finish and reset *)

\* the step completes a contact submission: the entry is built and appended
ContactCompleted == effects'.op = "contactTimer"

\* C11 as stated: a contact submission with all four fields present goes from
\* contact-details to firm-input: it appends exactly one entry with
\* isMatched = TRUE, the in-flight canonical firm name and the four submitted
\* contact fields, and clears currentFirmName.
C11_Original ==
    [][ContactCompleted
       => /\ ContactDetailsStepShown(formState)
          /\ Len(formState'.enteredFirms) = Len(formState.enteredFirms) + 1
          /\ SubSeq(formState'.enteredFirms, 1, Len(formState.enteredFirms))
                = formState.enteredFirms
          /\ LET e == formState'.enteredFirms[Len(formState'.enteredFirms)]
             IN  /\ e.isMatched = TRUE
                 /\ e.firmName = formState.currentFirmName
                 /\ e.contactName = formData.name /\ ~Blank(e.contactName)
                 /\ e.contactDesignation = formData.designation
                 /\ ~Blank(e.contactDesignation)
                 /\ e.relationshipStrength = formData.relationshipStrength
                 /\ e.relationshipStrength # ""
                 /\ e.contactFrequency = formData.contactFrequency
                 /\ e.contactFrequency # ""
          /\ FirmInputStepShown(formState')
          /\ formState'.currentFirmName = <<>>]_vars

\* the step is a cancel of the contact sub-form
ContactCancelled == effects'.op = "contactCancel"

\* C12: a cancel is taken from contact-details and returns to firm-input with
\* enteredFirms and userEmail as they were, currentFirmName = '' and
\* currentFirmMatched = FALSE.
C12_CancelKeepsList ==
    [][ContactCancelled
       => /\ ContactDetailsStepShown(formState)
          /\ FirmInputStepShown(formState')
          /\ formState'.enteredFirms = formState.enteredFirms
          /\ formState'.userEmail = formState.userEmail
          /\ formState'.currentFirmName = <<>>
          /\ formState'.currentFirmMatched = FALSE]_vars

\* C12 witness: a matched firm was cancelled with an entry already in the list
C12_Witness ==
    /\ effects.op = "contactCancel"
    /\ Len(formState.enteredFirms) > 0
    /\ \E n \in submitted :
          /\ n = <<"a", "b">>
          /\ \A i \in 1..Len(formState.enteredFirms) :
                ~EqIgnoreCase(formState.enteredFirms[i].firmName, n)

\* the step is a removal
FirmRemoved == effects'.op = "removeFirm"

\* C13: a removal by the id of an entry of enteredFirms takes out that entry
\* and no other: the entries before it stay where they are, the entries after
\* it move up by one in the same order, and currentStep and userEmail are as
\* they were.
C13_RemoveExactlyOne ==
    [][FirmRemoved
       => \E k \in 1..Len(formState.enteredFirms) :
             /\ formState.enteredFirms[k].id = effects'.firmId
             /\ \A j \in 1..Len(formState.enteredFirms) :
                   j # k => formState.enteredFirms[j].id # effects'.firmId
             /\ Len(formState'.enteredFirms) = Len(formState.enteredFirms) - 1
             /\ \A j \in 1..(k - 1) :
                   formState'.enteredFirms[j] = formState.enteredFirms[j]
             /\ \A j \in k..Len(formState'.enteredFirms) :
                   formState'.enteredFirms[j] = formState.enteredFirms[j + 1]
             /\ formState'.currentStep = formState.currentStep
             /\ formState'.userEmail = formState.userEmail]_vars

\* C13 witness: the first of several entries was removed and a later one is
\* still listed
C13_Witness ==
    /\ effects.op = "removeFirm"
    /\ Len(formState.enteredFirms) > 0
    /\ formState.enteredFirms[1].id > effects.firmId

\* the step is a click on Finish
FinishClicked == effects'.op = "finish"

FinishEmailErrors ==
    {"Please enter your email address", "Please enter a valid email address"}

\* C14: a Finish made while userEmail is empty or not well-formed sets an email
\* error and leaves isFormComplete, enteredFirms and currentStep (the whole form
\* state) as they were; no relay request is issued and onComplete is not called,
\* neither then nor later on its behalf.
C14_FinishNeedsEmail ==
    [][(FinishClicked
        /\ (formState.userEmail = <<>> \/ ~WellFormed(formState.userEmail)))
       => /\ emailError' \in FinishEmailErrors
          /\ formState' = formState
          /\ effects'.requests = 0
          /\ effects'.completes = 0
          /\ pendingFinish' = pendingFinish]_vars

\* C14 witness: a Finish on a non-empty list was turned away because the
\* recorded email is malformed
C14_Witness ==
    /\ effects.op = "finish"
    /\ Len(formState.enteredFirms) > 0
    /\ formState.userEmail = <<"a", "@", "b">>
    /\ emailError = "Please enter a valid email address"
    /\ ~formState.isFormComplete

\* the step is the rest of an accepted Finish, run once its request settled
FinishSettled == effects'.op = "finishSettled"

\* every accepted Finish is followed by the complete state
FinishEventuallyCompletes == (pendingFinish # <<>>) ~> formState.isFormComplete

\* C15 as stated: an accepted Finish eventually leads to isFormComplete = TRUE
\* whether the relay request succeeds, returns a non-OK status or throws; the
\* transition to complete retains enteredFirms and surfaces no error.
C15_Original ==
    /\ FinishEventuallyCompletes
    /\ [][FinishSettled
          => /\ effects'.outcome \in RelayOutcomes
             /\ formState'.isFormComplete
             /\ formState'.enteredFirms = formState.enteredFirms
             /\ emailError' = emailError
             /\ firmInputError' = firmInputError]_vars

\* the step is a start-new-submission
NewSubmissionStarted == effects'.op = "newSubmission"

\* C16: start-new-submission is taken from complete and puts the controller
\* state back to its initial values: enteredFirms empty, userEmail empty,
\* currentStep = firm-input, currentFirmName empty, currentFirmMatched = FALSE,
\* isFormComplete = FALSE, and the firm input, its error and the email error
\* cleared.
C16_NewSubmissionResets ==
    [][NewSubmissionStarted
       => /\ formState.isFormComplete
          /\ formState'.enteredFirms = <<>>
          /\ formState'.userEmail = <<>>
          /\ formState'.currentStep = "firm-input"
          /\ formState'.currentFirmName = <<>>
          /\ formState'.currentFirmMatched = FALSE
          /\ formState'.isFormComplete = FALSE
          /\ formState'.maxFirms = 5
          /\ currentFirmInput' = <<>>
          /\ firmInputError' = ""
          /\ emailError' = ""]_vars

\* C16 witness: a submission with entries was completed and then reset
C16_Witness ==
    /\ effects.op = "newSubmission"
    /\ nextId > 1
    /\ formState.enteredFirms = <<>>
    /\ formState.userEmail = <<>>
    /\ ~formState.isFormComplete

----------------------------------------------------------------------------
(* Properties of the submission relay *)

\* the handler has been invoked and is no longer running up to its first await
Handled == relay.pc \in {"awaiting", "done"}

\* the response carries this JSON object as its body
AnswersWith(status, object) ==
    /\ relay.pc = "done"
    /\ response.statusCode = status
    /\ response.body.kind = "json"
    /\ response.body.value = object

\* C17: a request whose method is not POST is answered with 405 and the body
\* {error: "Method not allowed"}; its body is not parsed and the webhook is not
\* called.
C17_NonPostIs405 ==
    (Handled /\ event.httpMethod # "POST")
        => /\ AnswersWith(405, [error |-> "Method not allowed"])
           /\ ~relay.parsed
           /\ relay.posts = <<>>

\* C17 witness: a GET with a body that is not JSON was answered with 405
C17_Witness ==
    /\ relay.pc = "done"
    /\ event.httpMethod = "GET"
    /\ event.body.kind = "malformed"
    /\ response.statusCode = 405

\* C18 as stated: a preflight request (method OPTIONS) is answered with 200, an
\* empty body and headers that advertise the allowed headers and methods.
C18_Original ==
    (Handled /\ event.httpMethod = "OPTIONS")
        => /\ relay.pc = "done"
           /\ response.statusCode = 200
           /\ response.body.kind = "empty"
           /\ {"AllowHeaders", "AllowMethods"} \subseteq DOMAIN response.headers

\* the value of `firms` in the JSON body of the request
BodyFirms ==
    LET value == event.body.value
    IN  IF value.t = "object" /\ "firms" \in DOMAIN value.v THEN value.v.firms
        ELSE [t |-> "undefined"]

\* firms is absent, not a list, or an empty list
NoUsableFirms == BodyFirms.t # "array" \/ BodyFirms.v = <<>>

\* C19 as stated: a POST whose JSON body has firms absent, not a list or an
\* empty list is answered with 400 and {error: "Missing required fields"} and
\* no webhook call is made, with and without a configured webhook.
C19_Original ==
    (Handled /\ event.httpMethod = "POST" /\ event.body.kind = "json"
     /\ NoUsableFirms)
        => /\ AnswersWith(400, [error |-> "Missing required fields"])
           /\ relay.posts = <<>>

\* the webhook call of this invocation completed with an OK status
WebhookCompletedOk == "outcome" \in DOMAIN relay /\ relay.outcome = "ok"

InternalErrorBody ==
    [error |-> "Internal server error",
     message |-> "Failed to process form submission"]

\* C20: for a POST with a configured webhook, the answer is 200 {success: true}
\* exactly when the webhook call completed with an OK status; with a non-empty
\* firms list, and with a body that cannot be parsed, every other end of the
\* invocation (webhook not OK, webhook call thrown, any other exception) is the
\* answer 500 {error: "Internal server error", message: "Failed to process form
\* submission"}; the invocation always ends with an answer.
C20_SuccessIffWebhookOk ==
    (relay.pc = "done" /\ event.httpMethod = "POST" /\ env.WEBHOOK_URL.t = "string")
        => /\ response.statusCode \in {200, 400, 500}
           /\ response.statusCode = 200 <=> WebhookCompletedOk
           /\ WebhookCompletedOk
                 => /\ response.body.kind = "json"
                    /\ response.body.value.success = TRUE
           /\ ((event.body.kind = "json" /\ ~NoUsableFirms)
               \/ event.body.kind = "malformed")
                 => \/ WebhookCompletedOk
                    \/ AnswersWith(500, InternalErrorBody)

\* C20 witness: the webhook answered not OK and the handler returned 500
C20_Witness ==
    /\ relay.pc = "done"
    /\ event.httpMethod = "POST"
    /\ "outcome" \in DOMAIN relay
    /\ relay.outcome = "not-ok"
    /\ response.statusCode = 500

\* the firms list of a request whose message has been composed
PostedFirms == event.body.value.v.firms.v

\* the text of the field with this label in a section, "" when there is none
FieldText(fields, label) ==
    IF \E k \in 1..Len(fields) : fields[k].label = label
    THEN fields[CHOOSE k \in 1..Len(fields) : fields[k].label = label].text
    ELSE ""

LabelsOf(fields) == {fields[k].label : k \in 1..Len(fields)}

ContactLabels == {"Contact Name", "Designation", "Relationship", "Contact Frequency"}

\* the human-readable labels of the two enumerations
RelationshipLabel ==
    [x \in {"very-strong", "strong", "moderate", "weak"} |->
        CASE x = "very-strong" -> "Very Strong" [] x = "strong" -> "Strong"
          [] x = "moderate" -> "Moderate" [] OTHER -> "Weak"]

FrequencyLabel ==
    [x \in {"quarterly", "annually", "occasionally", "recently"} |->
        CASE x = "quarterly" -> "Quarterly" [] x = "annually" -> "Annually"
          [] x = "occasionally" -> "Occasionally" [] OTHER -> "Recently"]

\* the string a firm carries under this key, "" when it carries none
StringOf(firm, key) ==
    IF key \in DOMAIN firm.v /\ firm.v[key].t = "string" THEN firm.v[key].v ELSE ""

\* C21 as stated: in the composed message each firm's section carries the firm
\* name and the matched status; it carries contact name, designation,
\* relationship label and frequency label only if the firm is matched; a
\* relationshipStrength or contactFrequency outside its enumeration is rendered
\* as "Not specified".
C21_Original ==
    relay.posts # <<>> =>
        LET message == relay.posts[1]
        IN  /\ Len(message.blocks) = Len(PostedFirms)
            /\ \A i \in 1..Len(PostedFirms) :
                  LET firm == PostedFirms[i]
                      fields == message.blocks[i].fields
                      matched == firm.v.isMatched.v
                      strength == StringOf(firm, "relationshipStrength")
                      frequency == StringOf(firm, "contactFrequency")
                  IN  /\ FieldText(fields, "Firm Name") = firm.v.firmName.v
                      /\ FieldText(fields, "Status")
                            = (IF matched THEN "Matched" ELSE "Not Matched")
                      /\ ~matched => LabelsOf(fields) \cap ContactLabels = {}
                      /\ "Relationship" \in LabelsOf(fields)
                            => FieldText(fields, "Relationship")
                                  = (IF strength \in DOMAIN RelationshipLabel
                                     THEN RelationshipLabel[strength]
                                     ELSE "Not specified")
                      /\ "Contact Frequency" \in LabelsOf(fields)
                            => FieldText(fields, "Contact Frequency")
                                  = (IF frequency \in DOMAIN FrequencyLabel
                                     THEN FrequencyLabel[frequency]
                                     ELSE "Not specified")

\* a Finish that passes the email guards
FinishAccepted ==
    /\ FinishClicked
    /\ formState.userEmail # <<>>
    /\ WellFormed(formState.userEmail)

\* the webhook POSTs the relay makes for the request of a suspended handleFinish
PostsFor(p, e) == handler(finishRequest(p), e.WEBHOOK_URL).posts

\* C22: every operation is attempted once.  An accepted Finish issues exactly
\* one relay request; no other step issues one, and in particular the step in
\* which a request fails neither issues it again nor keeps it pending.  A relay
\* invocation, for any request and for each request the controller issues,
\* makes at most one webhook POST, and none after the first.
C22_AttemptOnce ==
    [][/\ FinishAccepted
          => /\ effects'.requests = 1
             /\ pendingFinish' = Append(pendingFinish,
                    [finalFirms |-> formState.enteredFirms,
                     userEmail |-> formState.userEmail])
             /\ \A e \in Envs :
                   Len(PostsFor(pendingFinish'[Len(pendingFinish')], e)) <= 1
       /\ ~FinishAccepted
          => /\ effects'.requests = 0
             /\ Len(pendingFinish') <= Len(pendingFinish)
       /\ FinishSettled
          => /\ effects'.requests = 0
             /\ Len(pendingFinish') = Len(pendingFinish) - 1
       /\ Len(relay'.posts) <= 1
       /\ relay.posts # <<>> => relay'.posts = relay.posts
      ]_vars

\* one request has just failed and was not issued again, while another is in
\* flight for which the relay makes its one POST
C22_Witness ==
    /\ effects.op = "finishSettled"
    /\ effects.outcome # "ok"
    /\ effects.requests = 0
    /\ Len(pendingFinish) = 1
    /\ \E e \in Envs : Len(PostsFor(pendingFinish[1], e)) = 1

\* C23 as stated: while a final submission is pending a second Finish event
\* starts no relay request, so at most one request is in flight (and onComplete
\* is called once per submission).
C23_Original ==
    [][/\ (FinishClicked /\ pendingFinish # <<>>)
          => /\ effects'.requests = 0
             /\ pendingFinish' = pendingFinish
       /\ Len(pendingFinish') <= 1
      ]_vars

\* the controller transitions other than final submission
SynchronousOps ==
    {"firmSubmit", "contactSubmit", "contactCancel", "removeFirm", "newSubmission"}

\* C24 as stated: every controller transition other than final submission
\* updates AdvisorFormState within the handler invocation that triggers it: the
\* handler leaves no update to a later callback, so no other event is processed
\* between the triggering event and the update.
C24_Original ==
    [][/\ effects'.op \in SynchronousOps
          => /\ contactTimers' = contactTimers
             /\ pendingFinish' = pendingFinish
       /\ contactTimers # <<>> => ContactCompleted
      ]_vars

\* C25 as stated: whatever firm submissions and removals were interleaved with
\* a pending final submission, the enteredFirms list kept in the complete state
\* is the accumulated list as it stood immediately before the transition to
\* complete.
C25_Original ==
    [][FinishSettled
       => /\ formState'.isFormComplete
          /\ formState'.enteredFirms = formState.enteredFirms]_vars

\* the step is a delayed callback: the timer of a contact submission or the
\* continuation of a final submission
DelayedCallback == ContactCompleted \/ FinishSettled

\* C26 as stated: once the controller is complete, enteredFirms is not modified
\* until start-new-submission; and a delayed callback that runs right after
\* start-new-submission, before any user event, leaves the state at its initial
\* values: it appends no entry and does not set isFormComplete.
C26_Original ==
    [][/\ (formState.isFormComplete /\ ~NewSubmissionStarted)
          => formState'.enteredFirms = formState.enteredFirms
       /\ (effects.op = "newSubmission" /\ DelayedCallback)
          => formState' = initialFormState
      ]_vars

\* C27 as stated: in every reachable state a non-empty enteredFirms implies
\* that the recorded userEmail is well-formed, and so no Finish event is
\* rejected by the email guard.
C27_Original ==
    [][/\ Len(formState'.enteredFirms) > 0
          => /\ formState'.userEmail # <<>>
             /\ WellFormed(formState'.userEmail)
       /\ FinishClicked
          => /\ emailError' \notin FinishEmailErrors
             /\ effects'.requests = 1
      ]_vars

\* what the relay does with the request of a suspended handleFinish
RelayRun(p, e) == handler(finishRequest(p), e.WEBHOOK_URL)

\* C28: every relay request the controller issues carries a non-empty firms
\* list, and the relay handler, with or without a webhook URL configured, does
\* not answer such a request with HTTP 400: it goes on to the webhook call or
\* answers with the configuration error.
C28_NeverMissingFields ==
    \A i \in 1..Len(pendingFinish), e \in Envs :
        LET p == pendingFinish[i]
            run == RelayRun(p, e)
        IN  /\ Len(p.finalFirms) > 0
            /\ run.response.statusCode # 400
            /\ run.response # MissingFields
            /\ run.pc = "awaiting" \/ run.response = ConfigurationError

\* C28 witness: a request with a matched and an unmatched entry is in flight,
\* and the relay composes its message for it
C28_Witness ==
    /\ effects.op = "finish"
    /\ effects.requests = 1
    /\ \E i \in 1..Len(pendingFinish) :
          LET p == pendingFinish[i]
          IN  /\ \E a, b \in 1..Len(p.finalFirms) :
                    p.finalFirms[a].isMatched /\ ~p.finalFirms[b].isMatched
              /\ \E e \in Envs :
                    LET run == RelayRun(p, e)
                    IN  /\ run.pc = "awaiting"
                        /\ run.posts[1].totalFirms = Len(p.finalFirms)

\* the firm submission passed the email and duplicate guards and consulted the
\* directory
DirectoryConsulted == FirmSubmitted /\ effects'.lookups > 0

\* C29: for every string s, isValidFirm(s) is true exactly when
\* getExactFirmName(s) is not null; a name n that getExactFirmName returns is
\* itself valid and is its own canonical name; and the controller takes the
\* matched branch (contact-details) exactly when the submitted name has a
\* canonical name.
C29_ValidIffCanonical ==
    [][/\ call'.op = "isValidFirm"
          => call'.result = (getExactFirmName(firms, call'.arg) # Null)
       /\ call'.op = "getExactFirmName"
          => /\ (call'.result # Null) = isValidFirm(firms, call'.arg)
             /\ call'.result # Null
                => /\ isValidFirm(firms, call'.result)
                   /\ getExactFirmName(firms, call'.result) = call'.result
       /\ DirectoryConsulted
          => (ContactDetailsStepShown(formState') /\ formState'.currentFirmMatched)
                = (getExactFirmName(firms, trim(currentFirmInput)) # Null)
      ]_vars

\* C29 witness: a padded or differently cased argument has a canonical name
\* other than itself, in a directory that holds a second spelling of that name
C29_Witness ==
    /\ call.op = "getExactFirmName"
    /\ call.result # Null
    /\ call.result # call.arg
    /\ \E i \in 1..Len(firms) :
          firms[i] # call.result /\ EqIgnoreCase(firms[i], call.result)

\* the step is an Enter pressed while a suggestion is highlighted
EnterOnHighlight ==
    /\ firmInput'.last.op = "Enter"
    /\ ListShown(firmInput)
    /\ firmInput.selectedIndex >= 0

\* C30 as stated: onSubmit is invoked only by the Add Firm button or by Enter
\* with no suggestion highlighted, and only with a name that is not empty and
\* is the value without its outer whitespace; Enter with a suggestion
\* highlighted copies that suggestion into the input, closes the list and does
\* not invoke onSubmit.
C30_Original ==
    [][/\ \A k \in 1..Len(firmInput'.last.onSubmit) :
             LET name == firmInput'.last.onSubmit[k]
             IN  /\ name # <<>>
                 /\ IsTrimOf(name, firmInput.value)
                 /\ firmInput'.last.op \in {"submitClick", "Enter"}
                 /\ firmInput'.last.op = "Enter" => firmInput.selectedIndex < 0
       /\ Len(firmInput'.last.onSubmit) <= 1
       /\ EnterOnHighlight
          => /\ firmInput'.value = firmInput.suggestions[firmInput.selectedIndex + 1]
             /\ firmInput'.last.onSubmit = <<>>
             /\ ~ListShown(firmInput')
      ]_vars

====
